---- MODULE Spec2Model ----
(***************************************************************************)
(* A model of the gesture-controlled painter of virtual_paint.py and of    *)
(* the finger classifier of Hand_traking_module.py.                         *)
(*                                                                         *)
(* Images (the canvas, the camera frame, the composited output) are        *)
(* 1280x720 BGR rasters; the model observes them at the sample positions   *)
(* Pixels, in real pixel coordinates.  Colours are BGR triples of 0..255.  *)
(***************************************************************************)
EXTENDS Integers, Sequences, FiniteSets, TLC

VARIABLES
    header,         \* VirtualPainter.header, as the index into overlay_lst
    drawing_color,  \* VirtualPainter.drawing_color (BGR)
    brush_size,     \* VirtualPainter.brush_size
    eraser_size,    \* VirtualPainter.eraser_size
    img_canvas,     \* VirtualPainter.img_canvas at the sample pixels
    xp, yp,         \* VirtualPainter.xp, .yp : the previous drawing point
    lmlist,         \* HandDetector.lmlist / the local lmlist of process_frame
    img,            \* the local img of run(): the frame travelling down the loop
    pc,             \* position of run(): read, process, combine, show, release,
                    \*   done, or crashed (an uncaught exception left run())
    frameNo,        \* number of frames read so far
    ran,            \* history: the blocks of process_frame that ran this frame
    segs,           \* history: the segments cv2.line drew on img_canvas this frame
    prevRan,        \* history: ran of the previous frame, {"None"} before any
    fingers,        \* the local fingers of process_frame, <<>> before FingersUP
    cover,          \* history, per sample pixel: the kind of the last segment
                    \*   cv2.line drew over it on img_canvas
    cap_open,       \* the capture self.cap and the window are held
    prev_time,      \* VirtualPainter.prev_time, in clock ticks
    current_time    \* VirtualPainter.current_time, in clock ticks

vars == <<header, drawing_color, brush_size, eraser_size, img_canvas, xp, yp,
          lmlist, img, pc, frameNo, ran, segs, prevRan, fingers, cover,
          cap_open, prev_time, current_time>>

clock == <<prev_time, current_time>>

painter == <<header, drawing_color, brush_size, eraser_size, img_canvas, xp, yp>>

-----------------------------------------------------------------------------
(* Bounds of the model *)

(* Frames read in a run of Spec, which offers every hand of Hands. *)
MaxFrames == 2

(* Frames read in a run of ClassifySpec, which offers the hands of ClassifyHands. *)
MaxClassifyFrames == 2

(* Frames read in a run of StrokeSpec, which offers the hands of StrokeHands. *)
MaxStrokeFrames == 5

-----------------------------------------------------------------------------
(* Program constants *)

Width == 1280
HeaderRows == 100
ToolbarY == 110
Thresh == 50
MaxVal == 255

Red == <<0, 0, 255>>
(* A green too dark for the compositor's threshold. *)
GreenDark == <<0, 40, 0>>
Green == <<0, 255, 0>>
Pink == <<255, 0, 255>>
(* Eraser as a dark grey. *)
EraserDarkGrey == <<40, 40, 40>>

Eraser == <<0, 0, 0>>

tipIDs == <<4, 8, 12, 16, 20>>

-----------------------------------------------------------------------------
(* Sample positions of the rasters.  The set is closed under the           *)
(* horizontal mirror x -> Width-1-x that cv2.flip(img, 1) applies.         *)

Pixels ==
    { <<0, 0>>, <<1279, 0>>,          \* corners, inside the header band
      <<300, 50>>, <<979, 50>>,       \* inside the header band
      <<150, 300>>, <<1129, 300>>,    \* drawing area, at fingertip positions
      <<639, 300>>, <<640, 300>> }    \* drawing area, between them

Black == <<0, 0, 0>>

NoImage == [p \in Pixels |-> Black]

(* Camera frames delivered by cap.read(): a flat one and one whose left    *)
(* and right halves differ, so that the flip is observable.                *)
Cams ==
    { [p \in Pixels |-> <<90, 90, 90>>],
      [p \in Pixels |-> IF p[1] < 640 THEN <<255, 255, 255>> ELSE <<200, 100, 7>>] }

-----------------------------------------------------------------------------
(* Landmark frames *)

(* Lengths of truncated landmark lists. *)
ShortLens == {1, 9, 13, 20}

(* Index fingertip positions offered by the detector. *)
Tips ==
    { <<x, 50>> : x \in {50, 150, 250, 300, 375, 475, 575, 700, 800, 900,
                         1025, 1100, 1175, 1200} }
    \cup { <<150, 109>>, <<150, 110>>, <<0, 0>>, <<150, 300>>, <<1129, 300>> }

(* A pose gives, per finger thumb..pinky, the offset of the reference      *)
(* landmark from the tip on the compared axis: positive = tip before the   *)
(* reference (finger up), negative = down, zero = level.                   *)
Poses ==
    { <<-30, 30, -30, -30, -30>>,     \* index only
      <<-30, 30, 30, -30, -30>>,      \* index and middle
      <<30, 30, 30, 30, 30>>,         \* open hand
      <<30, 30, -30, 30, 30>>,        \* all but the middle finger
      <<-30, -30, -30, -30, -30>>,    \* fist
      <<-30, -30, 30, -30, -30>>,     \* middle only
      <<0, 0, 0, 0, 0>> }             \* every tip level with its reference

(* The 21 landmarks [id, cx, cy] of a hand whose index fingertip is at tip *)
(* in pose: finger k has its tip 40 px right of finger k-1.                *)
Landmark(tip, pose, id) ==
    LET k == CHOOSE j \in 1..5 : tipIDs[j] >= id /\ (j = 1 \/ tipIDs[j - 1] < id)
        fx == tip[1] + 40 * (k - 2)
        fy == tip[2]
    IN  IF id = tipIDs[k] THEN <<id, fx, fy>>
        ELSE IF k = 1 /\ id = tipIDs[k] - 1 THEN <<id, fx + pose[k], fy>>
        ELSE IF k > 1 /\ id = tipIDs[k] - 2 THEN <<id, fx, fy + pose[k]>>
        ELSE <<id, fx, fy + 200>>

Hand(tip, pose, n) == [i \in 1..n |-> Landmark(tip, pose, i - 1)]

(* What FindPosition can be handed: no hand, a full hand, or a truncated   *)
(* landmark list.                                                          *)
FullHands == { Hand(t, g, tipIDs[5] + 1) : t \in Tips, g \in Poses }
ShortHands == { Hand(<<150, 300>>, <<-30, 30, -30, -30, -30>>, n) : n \in ShortLens }
Hands == {<<>>} \cup FullHands \cup ShortHands

(* The hands of the longer runs: three drawing positions and two toolbar   *)
(* entries, drawing, selecting or idle; no hand; one truncated list.       *)
StrokeTips == { <<0, 0>>, <<150, 300>>, <<1129, 300>>, <<475, 50>>, <<1100, 50>> }
StrokePoses == { <<-30, 30, -30, -30, -30>>, <<-30, 30, 30, -30, -30>>,
                 <<-30, -30, -30, -30, -30>> }
StrokeHands ==
    {<<>>} \cup { Hand(t, g, tipIDs[5] + 1) : t \in StrokeTips, g \in StrokePoses }
           \cup { Hand(<<150, 300>>, <<-30, 30, -30, -30, -30>>, 9) }

(* The hands of the classifier runs: every finger up, down or level. *)
ClassifyTips == { <<150, 300>>, <<475, 50>> }
ClassifyPoses == [1..5 -> {-30, 0, 30}]
ClassifyHands == { Hand(t, g, tipIDs[5] + 1) : t \in ClassifyTips, g \in ClassifyPoses }

StrokeCams == { [p \in Pixels |-> IF p[1] < 640 THEN <<255, 255, 255>> ELSE <<200, 100, 7>>] }

-----------------------------------------------------------------------------
(* HandDetector.FingersUP *)

(* lm[i] of the Python list is lm[i + 1] here. *)
At(lm, i) == lm[i + 1]

(* The list indices FingersUP reads, in order. *)
FingersUPReads ==
    <<tipIDs[1], tipIDs[1] - 1>>
    \o <<tipIDs[2], tipIDs[2] - 2>> \o <<tipIDs[3], tipIDs[3] - 2>>
    \o <<tipIDs[4], tipIDs[4] - 2>> \o <<tipIDs[5], tipIDs[5] - 2>>

(* Thumb compared on the vertical axis like the other fingers. *)
ThumbByHeight(lm) == IF At(lm, tipIDs[1])[3] < At(lm, tipIDs[1] - 1)[3] THEN 1 ELSE 0

Thumb(lm) == IF At(lm, tipIDs[1])[2] < At(lm, tipIDs[1] - 1)[2] THEN 1 ELSE 0

(* Finger with the comparison turned round. *)
FingerFlipped(lm, id) == IF At(lm, tipIDs[id + 1])[3] > At(lm, tipIDs[id + 1] - 2)[3] THEN 1 ELSE 0

Finger(lm, id) == IF At(lm, tipIDs[id + 1])[3] < At(lm, tipIDs[id + 1] - 2)[3] THEN 1 ELSE 0

FingersUP(lm) == <<Thumb(lm)>> \o [id \in 1..4 |-> Finger(lm, id)]

-----------------------------------------------------------------------------
(* The cv2 drawing and pixel primitives, at the sample pixels *)

Abs(n) == IF n < 0 THEN -n ELSE n
Min(a, b) == IF a < b THEN a ELSE b
Max(a, b) == IF a < b THEN b ELSE a

(* cv2.flip(img, 1): mirror about the vertical axis. *)
Flip(im) == [p \in Pixels |-> im[<<Width - 1 - p[1], p[2]>>]]

(* Squared distance between two points. *)
Dist2(p, q) == (p[1] - q[1]) * (p[1] - q[1]) + (p[2] - q[2]) * (p[2] - q[2])

(* cv2.line with an even thickness t paints the pixels within t/2 of the   *)
(* segment a-b (a band with round caps; a disc when a = b).  The test on   *)
(* the distance to the carrying line is 4*cross^2 <= t^2*len2, kept within *)
(* 32-bit integers: t^2/4*len2 is below 46340^2, so a larger cross fails.  *)
OnLine(p, a, b, t) ==
    LET r2 == (t \div 2) * (t \div 2)
        len2 == Dist2(a, b)
        dot == (p[1] - a[1]) * (b[1] - a[1]) + (p[2] - a[2]) * (b[2] - a[2])
        cross == (p[1] - a[1]) * (b[2] - a[2]) - (p[2] - a[2]) * (b[1] - a[1])
    IN  IF len2 = 0 \/ dot <= 0 THEN Dist2(p, a) <= r2
        ELSE IF dot >= len2 THEN Dist2(p, b) <= r2
        ELSE Abs(cross) <= 46340 /\ cross * cross <= r2 * len2

Line(im, a, b, color, t) ==
    [p \in Pixels |-> IF OnLine(p, a, b, t) THEN color ELSE im[p]]

(* cv2.circle(..., cv2.FILLED) *)
Circle(im, c, r, color) ==
    [p \in Pixels |-> IF Dist2(p, c) <= r * r THEN color ELSE im[p]]

(* cv2.rectangle(..., cv2.FILLED): the corners in any order, inclusive. *)
Rectangle(im, c1, c2, color) ==
    [p \in Pixels |->
        IF /\ Min(c1[1], c2[1]) <= p[1] /\ p[1] <= Max(c1[1], c2[1])
           /\ Min(c1[2], c2[2]) <= p[2] /\ p[2] <= Max(c1[2], c2[2])
        THEN color ELSE im[p]]

-----------------------------------------------------------------------------
(* VirtualPainter.process_frame *)

(* The list indices process_frame and FingersUP read of a non-empty list;  *)
(* reading one at or beyond the length raises IndexError.                  *)
IndexErrorAt(lm) ==
    \E i \in 1..Len(<<8, 12>> \o FingersUPReads) :
        (<<8, 12>> \o FingersUPReads)[i] >= Len(lm)

(* ToolbarHit replacing the colour alone. *)
ToolbarHitColourOnly(x1, y1, h, c) ==
    IF y1 < ToolbarY
    THEN IF 50 < x1 /\ x1 < 250 THEN <<h, Red>>
         ELSE IF 375 < x1 /\ x1 < 575 THEN <<h, Green>>
         ELSE IF 700 < x1 /\ x1 < 900 THEN <<h, Pink>>
         ELSE IF 1025 < x1 /\ x1 < 1175 THEN <<h, Eraser>>
         ELSE <<h, c>>
    ELSE <<h, c>>

(* ToolbarHit with the range endpoints counted in. *)
ToolbarHitInclusive(x1, y1, h, c) ==
    IF y1 < ToolbarY
    THEN IF 50 <= x1 /\ x1 <= 250 THEN <<0, Red>>
         ELSE IF 375 <= x1 /\ x1 <= 575 THEN <<1, Green>>
         ELSE IF 700 <= x1 /\ x1 <= 900 THEN <<3, Pink>>
         ELSE IF 1025 <= x1 /\ x1 <= 1175 THEN <<2, Eraser>>
         ELSE <<h, c>>
    ELSE <<h, c>>

(* ToolbarHit with the overlays taken in listing order: the third entry,   *)
(* pink, shows overlay 2 and the fourth, the eraser, overlay 3.            *)
ToolbarHitListingOrder(x1, y1, h, c) ==
    IF y1 < ToolbarY
    THEN IF 50 < x1 /\ x1 < 250 THEN <<0, Red>>
         ELSE IF 375 < x1 /\ x1 < 575 THEN <<1, Green>>
         ELSE IF 700 < x1 /\ x1 < 900 THEN <<2, Pink>>
         ELSE IF 1025 < x1 /\ x1 < 1175 THEN <<3, Eraser>>
         ELSE <<h, c>>
    ELSE <<h, c>>

(* The toolbar hit test of the Selection block: the overlay index and the  *)
(* colour selected at (x1, y1), or the current ones on a miss.             *)
ToolbarHit(x1, y1, h, c) ==
    IF y1 < ToolbarY
    THEN IF 50 < x1 /\ x1 < 250 THEN <<0, Red>>
         ELSE IF 375 < x1 /\ x1 < 575 THEN <<1, Green>>
         ELSE IF 700 < x1 /\ x1 < 900 THEN <<3, Pink>>
         ELSE IF 1025 < x1 /\ x1 < 1175 THEN <<2, Eraser>>
         ELSE <<h, c>>
    ELSE <<h, c>>

(* The gesture tests without the look at the middle finger. *)
SelectionModeIndexOnly(up) == up[2] = 1
DrawingModeIndexOnly(up) == up[2] = 1

(* The two gesture tests, on the list FingersUP returned. *)
SelectionMode(up) == up[2] = 1 /\ up[3] = 1
DrawingMode(up) == up[2] = 1 /\ up[3] = 0

(* LineSize with the brush width for every tool. *)
LineSizeBrushOnly(c) == brush_size

(* The thickness the Drawing block hands to cv2.line. *)
LineSize(c) == IF c = <<0, 0, 0>> THEN eraser_size ELSE brush_size

(* StartPoint without the seeding. *)
StartPointUnseeded(px, py, x1, y1) == <<px, py>>

(* The start point of the segment: the previous point, seeded with the     *)
(* fingertip when it is (0, 0).                                            *)
StartPoint(px, py, x1, y1) == IF px = 0 /\ py = 0 THEN <<x1, y1>> ELSE <<px, py>>

(* The Selection block leaving the previous point alone. *)
SelectionPointerKept(px, py) == <<px, py>>

(* The previous point left by the Selection block. *)
SelectionPointer(px, py) == <<0, 0>>

(* The history of the sample pixels after cv2.line drew a-b on the canvas: *)
(* "brush" under a colour, "erased" where black went over paint, "eraser"  *)
(* where black went over a pixel never painted.                            *)
Covered(cov, a, b, color, t) ==
    [p \in Pixels |->
        IF ~OnLine(p, a, b, t) THEN cov[p]
        ELSE IF color # <<0, 0, 0>> THEN "brush"
        ELSE IF cov[p] \in {"brush", "erased"} THEN "erased"
        ELSE "eraser"]

process_frame(hand) ==
    /\ pc = "process"
    /\ lmlist' = hand
    /\ IF Len(hand) = 0
       THEN \* no hand: the flipped frame is returned
            /\ img' = Flip(img)
            /\ pc' = "combine"
            /\ ran' = {}
            /\ segs' = <<>>
            /\ fingers' = <<>>
            /\ UNCHANGED <<painter, cover>>
       ELSE IF IndexErrorAt(hand)
       THEN \* lmlist[8], lmlist[12] or FingersUP raises IndexError
            /\ img' = Flip(img)
            /\ pc' = "crashed"
            /\ ran' = {"IndexError"}
            /\ segs' = <<>>
            /\ fingers' = <<>>
            /\ UNCHANGED <<painter, cover>>
       ELSE LET x1 == At(hand, 8)[2]
                y1 == At(hand, 8)[3]
                x2 == At(hand, 12)[2]
                y2 == At(hand, 12)[3]
                up == FingersUP(hand)
                sel == SelectionMode(up)
                \* after the Selection block
                p1 == IF sel THEN SelectionPointer(xp, yp) ELSE <<xp, yp>>
                hit == IF sel THEN ToolbarHit(x1, y1, header, drawing_color)
                              ELSE <<header, drawing_color>>
                img1 == IF sel
                        THEN Rectangle(Flip(img), <<x1, y1 - 25>>, <<x2, y2 + 25>>, hit[2])
                        ELSE Flip(img)
                \* the Drawing block
                draw == DrawingMode(up)
                from == StartPoint(p1[1], p1[2], x1, y1)
                size == LineSize(hit[2])
            IN  /\ fingers' = up
                /\ header' = hit[1]
                /\ drawing_color' = hit[2]
                /\ UNCHANGED <<brush_size, eraser_size>>
                /\ IF draw
                   THEN /\ img' = Line(Circle(img1, <<x1, y1>>, 15, hit[2]),
                                       from, <<x1, y1>>, hit[2], size)
                        /\ img_canvas' = Line(img_canvas, from, <<x1, y1>>, hit[2], size)
                        /\ xp' = x1
                        /\ yp' = y1
                        /\ segs' = <<[from |-> from, to |-> <<x1, y1>>,
                                      color |-> hit[2], size |-> size]>>
                        /\ cover' = Covered(cover, from, <<x1, y1>>, hit[2], size)
                   ELSE /\ img' = img1
                        /\ img_canvas' = img_canvas
                        /\ xp' = p1[1]
                        /\ yp' = p1[2]
                        /\ segs' = <<>>
                        /\ cover' = cover
                /\ ran' = (IF sel THEN {"Selection"} ELSE {})
                          \cup (IF draw THEN {"Drawing"} ELSE {})
                /\ pc' = "combine"
    /\ UNCHANGED <<frameNo, prevRan, cap_open, clock>>

-----------------------------------------------------------------------------
(* VirtualPainter.combine_images *)

(* cv2.cvtColor(BGR2GRAY) on 8-bit pixels: fixed point, 14 fractional bits. *)
Gray(c) == (c[1] * 1868 + c[2] * 9617 + c[3] * 4899 + 8192) \div 16384

(* ThresholdInv as THRESH_BINARY. *)
ThresholdBinary(g) == IF g > Thresh THEN MaxVal ELSE 0

(* ThresholdInv with the threshold itself counted as above. *)
ThresholdInvFromThresh(g) == IF g >= Thresh THEN 0 ELSE MaxVal

(* cv2.threshold(gray, 50, 255, THRESH_BINARY_INV): 0 above the threshold, *)
(* maxval otherwise.                                                       *)
ThresholdInv(g) == IF g > Thresh THEN 0 ELSE MaxVal

RECURSIVE BitAnd(_, _, _)
BitAnd(a, b, bits) ==
    IF bits = 0 THEN 0
    ELSE 2 * BitAnd(a \div 2, b \div 2, bits - 1) + (IF a % 2 = 1 /\ b % 2 = 1 THEN 1 ELSE 0)

RECURSIVE BitOr(_, _, _)
BitOr(a, b, bits) ==
    IF bits = 0 THEN 0
    ELSE 2 * BitOr(a \div 2, b \div 2, bits - 1) + (IF a % 2 = 1 \/ b % 2 = 1 THEN 1 ELSE 0)

(* cv2.bitwise_and / cv2.bitwise_or on one BGR pixel. *)
And3(c, d) == <<BitAnd(c[1], d[1], 8), BitAnd(c[2], d[2], 8), BitAnd(c[3], d[3], 8)>>
Or3(c, d) == <<BitOr(c[1], d[1], 8), BitOr(c[2], d[2], 8), BitOr(c[3], d[3], 8)>>

(* The inverse mask of the canvas, as a BGR image (COLOR_GRAY2BGR). *)
Mask(canvas, p) == LET m == ThresholdInv(Gray(canvas[p])) IN <<m, m, m>>

(* The overlay images are assets outside the program; overlay i is taken   *)
(* to be a flat image whose colour tells i.                                *)
Overlay(i) == [p \in Pixels |-> <<240, 240, i>>]

(* img[0:100, 0:1280] : the rows the header overwrites. *)
InHeader(p) == 0 <= p[2] /\ p[2] < HeaderRows /\ 0 <= p[1] /\ p[1] < Width

(* The output frame as a function of the canvas, the live frame and the   *)
(* header index.                                                           *)
Composite(canvas, im, h) ==
    [p \in Pixels |->
        IF InHeader(p) THEN Overlay(h)[p]
        ELSE Or3(And3(im[p], Mask(canvas, p)), canvas[p])]

combine_images(im) == Composite(img_canvas, im, header)

-----------------------------------------------------------------------------
(* VirtualPainter.__init__ and VirtualPainter.run *)

Init ==
    /\ header = 0
    /\ drawing_color = Red
    /\ brush_size = 8
    /\ eraser_size = 50
    /\ img_canvas = [p \in Pixels |-> <<0, 0, 0>>]
    /\ xp = 0
    /\ yp = 0
    /\ lmlist = <<>>
    /\ img = NoImage
    /\ pc = "read"
    /\ frameNo = 0
    /\ ran = {}
    /\ segs = <<>>
    /\ prevRan = {"None"}
    /\ fingers = <<>>
    /\ cover = [p \in Pixels |-> "none"]
    /\ cap_open = TRUE
    /\ prev_time = 0
    /\ current_time = 0

(* success, img = self.cap.read() with success *)
Read(cam, limit) ==
    /\ pc = "read"
    /\ frameNo < limit
    /\ img' = cam
    /\ frameNo' = frameNo + 1
    /\ pc' = "process"
    /\ UNCHANGED <<painter, lmlist, ran, segs, prevRan, fingers, cover, cap_open, clock>>

(* cap.read() fails: break *)
ReadFail ==
    /\ pc = "read"
    /\ pc' = "release"
    /\ UNCHANGED <<painter, lmlist, img, frameNo, ran, segs, prevRan, fingers, cover,
                   cap_open, clock>>

(* CombineImages merging into the canvas in place. *)
CombineImagesInPlace ==
    /\ pc = "combine"
    /\ img' = combine_images(img)
    /\ img_canvas' = combine_images(img)
    /\ pc' = "show"
    /\ UNCHANGED <<header, drawing_color, brush_size, eraser_size, xp, yp,
                   lmlist, frameNo, ran, segs, prevRan, fingers, cover, cap_open, clock>>

(* img = self.combine_images(img) *)
CombineImages ==
    /\ pc = "combine"
    /\ img' = combine_images(img)
    /\ pc' = "show"
    /\ UNCHANGED <<painter, lmlist, frameNo, ran, segs, prevRan, fingers, cover,
                   cap_open, clock>>

(* The values time.time() can return in add_fps: the clock has not gone   *)
(* back, and has ticked or not since the last call; it is past 0.          *)
Clock == {prev_time, prev_time + 1} \ {0}

(* add_fps, cv2.imshow and cv2.waitKey.  add_fps divides by the time since *)
(* the last call: ZeroDivisionError leaves run() when the clock has not    *)
(* ticked.  Otherwise the frame is shown and the loop ends on the key q.   *)
(* The FPS text lies left of x = 300 in the header band and covers no      *)
(* sample pixel.  The locals of the iteration (img, lmlist, fingers) are   *)
(* dead from here on: the next iteration overwrites them before reading    *)
(* them, so they are put back to their empty values; the history of the    *)
(* frame moves to prevRan.                                                 *)
Show(quit, now) ==
    /\ pc = "show"
    /\ current_time' = now
    /\ IF now = prev_time
       THEN /\ pc' = "crashed"
            /\ ran' = {"ZeroDivisionError"}
            /\ UNCHANGED <<painter, lmlist, img, frameNo, segs, prevRan, fingers,
                           cover, cap_open, prev_time>>
       ELSE /\ prev_time' = now
            /\ pc' = IF quit THEN "release" ELSE "read"
            /\ img' = NoImage
            /\ lmlist' = <<>>
            /\ fingers' = <<>>
            /\ prevRan' = ran
            /\ ran' = {}
            /\ segs' = <<>>
            /\ UNCHANGED <<painter, frameNo, cover, cap_open>>

(* self.cap.release(); cv2.destroyAllWindows() *)
Release ==
    /\ pc = "release"
    /\ pc' = "done"
    /\ cap_open' = FALSE
    /\ UNCHANGED <<painter, lmlist, img, frameNo, ran, segs, prevRan, fingers, cover,
                   clock>>

Next ==
    \/ \E cam \in Cams : Read(cam, MaxFrames)
    \/ ReadFail
    \/ \E hand \in Hands : process_frame(hand)
    \/ CombineImages
    \/ \E quit \in BOOLEAN, now \in Clock : Show(quit, now)
    \/ Release

Spec == Init /\ [][Next]_vars

(* The same program on longer runs of fewer hands. *)
StrokeNext ==
    \/ \E cam \in StrokeCams : Read(cam, MaxStrokeFrames)
    \/ ReadFail
    \/ \E hand \in StrokeHands : process_frame(hand)
    \/ CombineImages
    \/ \E quit \in BOOLEAN, now \in Clock : Show(quit, now)
    \/ Release

StrokeSpec == Init /\ [][StrokeNext]_vars

(* combine_images on its own: called on a live frame with a canvas of any  *)
(* one grey level.                                                         *)
ThresholdInit ==
    /\ header = 0
    /\ drawing_color = Red
    /\ brush_size = 8
    /\ eraser_size = 50
    /\ img_canvas \in { [p \in Pixels |-> <<g, g, g>>] : g \in 0..MaxVal }
    /\ xp = 0
    /\ yp = 0
    /\ lmlist = <<>>
    /\ img \in Cams
    /\ pc = "combine"
    /\ frameNo = 1
    /\ ran = {}
    /\ segs = <<>>
    /\ prevRan = {"None"}
    /\ fingers = <<>>
    /\ cover = [p \in Pixels |-> "none"]
    /\ cap_open = TRUE
    /\ prev_time = 0
    /\ current_time = 0

ThresholdNext == CombineImages

ThresholdSpec == ThresholdInit /\ [][ThresholdNext]_vars

(* The same program on hands in every finger pose. *)
ClassifyNext ==
    \/ \E cam \in StrokeCams : Read(cam, MaxClassifyFrames)
    \/ ReadFail
    \/ \E hand \in ClassifyHands : process_frame(hand)
    \/ CombineImages
    \/ \E quit \in BOOLEAN, now \in Clock : Show(quit, now)
    \/ Release

ClassifySpec == Init /\ [][ClassifyNext]_vars

-----------------------------------------------------------------------------
(* Vocabulary of the properties: the gesture of a landmark frame, read off *)
(* the landmarks themselves.                                               *)

FullFrame(lm) == Len(lm) = 21
IndexUp(lm) == At(lm, 8)[3] < At(lm, 6)[3]
MiddleUp(lm) == At(lm, 12)[3] < At(lm, 10)[3]
DrawingFrame(lm) == FullFrame(lm) /\ IndexUp(lm) /\ ~MiddleUp(lm)
SelectionFrame(lm) == FullFrame(lm) /\ IndexUp(lm) /\ MiddleUp(lm)
TipOf(lm) == <<At(lm, 8)[2], At(lm, 8)[3]>>

(* process_frame has returned for the current frame. *)
Processed == pc \in {"combine", "show"}

Painted(canvas) == \E p \in Pixels : canvas[p] # <<0, 0, 0>>

(* Live pixel values the compositor is tried on. *)
LiveColours == { <<0, 0, 0>>, <<255, 255, 255>>, <<90, 90, 90>>, <<200, 100, 7>>,
                 <<0, 0, 255>>, <<49, 50, 51>> }

(* A fingertip that is in no toolbar rectangle. *)
OutsideToolbar(t) ==
    \/ t[2] >= 110
    \/ ~ \/ (50 < t[1] /\ t[1] < 250)
         \/ (375 < t[1] /\ t[1] < 575)
         \/ (700 < t[1] /\ t[1] < 900)
         \/ (1025 < t[1] /\ t[1] < 1175)

-----------------------------------------------------------------------------
(* C1: the pointer is valid only while the Drawing condition held on every *)
(* frame since it was seeded: a frame on which the condition fails (no     *)
(* hand, a hand in another gesture, a Selection frame) leaves the pointer  *)
(* invalid, and a Drawing frame that follows a non-Drawing frame draws no  *)
(* segment starting anywhere but at its own fingertip.                     *)
C1_PointerValidOnlyWhileDrawing ==
    /\ (Processed /\ ~DrawingFrame(lmlist)) => (xp = 0 /\ yp = 0)
    /\ (Processed /\ DrawingFrame(lmlist) /\ "Drawing" \notin prevRan)
          => (Len(segs) = 1 /\ segs[1].from = TipOf(lmlist))
(* C2: the canvas is mutated only by Drawing frames: a step that changes  *)
(* a canvas pixel is process_frame on a frame with index up and middle     *)
(* down; empty, Idle and Selection frames and every other step leave it.   *)
C2_CanvasChangesOnlyInDrawingFrames ==
    [][img_canvas' # img_canvas => (pc = "process" /\ DrawingFrame(lmlist'))]_vars

(* a Selection frame that picked another colour over a painted canvas *)
C2_Witness ==
    /\ Processed /\ SelectionFrame(lmlist)
    /\ drawing_color = Green /\ prevRan = {"Drawing"}
    /\ Painted(img_canvas)

(* C3: a Drawing frame processed while the pointer is invalid, (0, 0),     *)
(* draws exactly one segment, from the index fingertip to the index        *)
(* fingertip.                                                              *)
C3_FirstSegmentIsAPoint ==
    [][(pc = "process" /\ DrawingFrame(lmlist') /\ xp = 0 /\ yp = 0)
          => (Len(segs') = 1 /\ segs'[1].from = TipOf(lmlist')
                             /\ segs'[1].to = TipOf(lmlist'))]_vars

(* a first stroke after a Selection frame, away from the origin *)
C3_Witness ==
    /\ Processed /\ DrawingFrame(lmlist) /\ prevRan = {"Selection"}
    /\ TipOf(lmlist) = <<1129, 300>>
    /\ segs = <<[from |-> <<1129, 300>>, to |-> <<1129, 300>>,
                 color |-> drawing_color, size |-> brush_size]>>
    /\ img_canvas[<<1129, 300>>] = drawing_color

(* C4: a landmark frame of 1..20 entries is classified without an index    *)
(* out of bounds and handled like a no-hand frame: no block runs.          *)
C4_ShortFrameIsIdle ==
    (pc \in {"combine", "show", "crashed"} /\ Len(lmlist) > 0 /\ Len(lmlist) < 21)
        => (pc # "crashed" /\ ran = {})

(* C5: outside the header band combine_images shows the live pixel where   *)
(* the canvas is unpainted (black) and the canvas colour where the canvas  *)
(* holds a brush colour, for the frame at hand and for any live value.     *)
C5_CompositeShowsLiveOrStroke ==
    [][pc = "combine" =>
        \A p \in Pixels : p[2] >= 100 =>
            /\ img_canvas[p] = <<0, 0, 0>> =>
                  /\ img'[p] = img[p]
                  /\ \A v \in LiveColours :
                        Composite(img_canvas, [q \in Pixels |-> v], header)[p] = v
            /\ img_canvas[p] \in {Red, Green, Pink} =>
                  /\ img'[p] = img_canvas[p]
                  /\ \A v \in LiveColours :
                        Composite(img_canvas, [q \in Pixels |-> v], header)[p]
                            = img_canvas[p]]_vars

(* an output showing an old stroke over a live frame of another colour and *)
(* the live frame beside it                                                *)
C5_Witness ==
    /\ pc = "show" /\ Len(lmlist) = 0
    /\ img_canvas[<<150, 300>>] = Red /\ img[<<150, 300>>] = Red
    /\ img_canvas[<<639, 300>>] = <<0, 0, 0>> /\ img[<<639, 300>>] = <<200, 100, 7>>

(* C6: a Selection frame whose index fingertip is in the toolbar band and  *)
(* inside an entry's x-range sets colour and header together to that entry *)
(* (the ranges are open: 50 < x < 250 and so on).                          *)
C6_ToolbarHitSetsColourAndHeader ==
    [][(pc = "process" /\ SelectionFrame(lmlist') /\ TipOf(lmlist')[2] < 110) =>
        LET x == TipOf(lmlist')[1]
        IN  /\ (50 < x /\ x < 250) => (drawing_color' = <<0, 0, 255>> /\ header' = 0)
            /\ (375 < x /\ x < 575) => (drawing_color' = <<0, 255, 0>> /\ header' = 1)
            /\ (700 < x /\ x < 900) => (drawing_color' = <<255, 0, 255>> /\ header' = 3)
            /\ (1025 < x /\ x < 1175) => (drawing_color' = <<0, 0, 0>> /\ header' = 2)]_vars

(* the eraser picked by the second of two Selection frames *)
C6_Witness ==
    /\ Processed /\ SelectionFrame(lmlist) /\ TipOf(lmlist) = <<1100, 50>>
    /\ drawing_color = Eraser /\ header = 2
    /\ prevRan = {"Selection"} /\ frameNo = 2

(* C7: a Selection frame whose index fingertip is outside every toolbar    *)
(* rectangle (y >= 110, or x in a gap, beyond the ends, or on a range      *)
(* endpoint) leaves colour and header unchanged.                           *)
C7_ToolbarMissChangesNothing ==
    [][(pc = "process" /\ SelectionFrame(lmlist') /\ OutsideToolbar(TipOf(lmlist')))
          => UNCHANGED <<drawing_color, header>>]_vars

(* green kept by a Selection frame on the endpoint 250 *)
C7_Witness ==
    /\ Processed /\ SelectionFrame(lmlist) /\ TipOf(lmlist) = <<250, 50>>
    /\ drawing_color = Green /\ header = 1

(* C8: at most one of the Selection and the Drawing block runs in a frame, *)
(* and a frame with index and middle up runs the Selection block alone and *)
(* leaves the canvas as it was, whatever it does to the colour.            *)
C8_SelectionExcludesDrawing ==
    [][pc = "process" =>
        /\ ~({"Selection", "Drawing"} \subseteq ran')
        /\ (FullFrame(lmlist') /\ IndexUp(lmlist') /\ MiddleUp(lmlist'))
              => (ran' = {"Selection"} /\ segs' = <<>> /\ img_canvas' = img_canvas)]_vars

(* a first frame that picked pink and drew nothing *)
C8_Witness ==
    /\ Processed /\ frameNo = 1 /\ ran = {"Selection"}
    /\ drawing_color = Pink /\ ~Painted(img_canvas)

(* C9: colour, brush size, eraser size and header change only in Selection *)
(* frames: Drawing, Idle and no-hand frames and combine_images leave them. *)
C9_BrushChangesOnlyInSelectionFrames ==
    [][<<drawing_color, brush_size, eraser_size, header>>'
            # <<drawing_color, brush_size, eraser_size, header>>
          => (pc = "process" /\ SelectionFrame(lmlist'))]_vars

(* a green stroke drawn with the fingertip on the pink toolbar entry *)
C9_Witness ==
    /\ Processed /\ DrawingFrame(lmlist) /\ TipOf(lmlist) = <<800, 50>>
    /\ drawing_color = Green /\ header = 1

(* C10: combine_images changes neither canvas, pointer, brush state nor    *)
(* header, so that a second call on the same live frame returns the frame  *)
(* the first call returned.                                                *)
C10_CombineIsPure ==
    [][pc = "combine" =>
        /\ UNCHANGED <<img_canvas, xp, yp, drawing_color, brush_size, eraser_size, header>>
        /\ img' = Composite(img_canvas, img, header)
        /\ Composite(img_canvas', img, header') = img']_vars

(* a composited frame over a painted canvas *)
C10_Witness ==
    /\ pc = "show" /\ DrawingFrame(lmlist)
    /\ img_canvas[<<639, 300>>] = Red /\ img[<<639, 300>>] = Red
    /\ img[<<300, 50>>] = Overlay(header)[<<300, 50>>]
C12_LoopEndsOnlyOnQuitOrReadFailure ==
    [][/\ pc' \in {"read", "process", "combine", "show", "release", "done"}
       /\ pc' = "release" => (pc = "read" \/ pc = "show")
       /\ pc \in {"release", "done"} => UNCHANGED <<img_canvas, frameNo>>
       /\ pc' = "done" => ~cap_open']_vars

(* C13: on a frame of 21 landmarks FingersUP returns five values, thumb to *)
(* pinky: the thumb is 1 iff landmark 4 is strictly left of landmark 3,    *)
(* and index, middle, ring, pinky are 1 iff the tip (8, 12, 16, 20) is     *)
(* strictly above the landmark two back (6, 10, 14, 18); level is down.    *)
C13_FingersUPClassifies ==
    (Processed /\ FullFrame(lmlist)) =>
        /\ Len(fingers) = 5
        /\ fingers[1] = (IF At(lmlist, 4)[2] < At(lmlist, 3)[2] THEN 1 ELSE 0)
        /\ \A k \in 2..5 :
              fingers[k] = (IF At(lmlist, 4 * k)[3] < At(lmlist, 4 * k - 2)[3] THEN 1 ELSE 0)

(* a second frame with thumb, middle and pinky up, the index level and the *)
(* ring finger down                                                        *)
C13_Witness ==
    /\ Processed /\ FullFrame(lmlist) /\ frameNo = 2
    /\ fingers = <<1, 0, 1, 0, 1>>
    /\ At(lmlist, 8)[3] = At(lmlist, 6)[3]
    /\ At(lmlist, 16)[3] > At(lmlist, 14)[3]

(* C14: stroke continuity.  A Drawing frame that follows a Drawing frame   *)
(* draws the segment from the previous fingertip, which is the pointer,    *)
(* wherever that is, to its own fingertip in the current colour; and every *)
(* Drawing frame leaves the pointer at its fingertip.                      *)
C14_StrokeContinuity ==
    [][(pc = "process" /\ DrawingFrame(lmlist')) =>
          /\ xp' = TipOf(lmlist')[1] /\ yp' = TipOf(lmlist')[2]
          /\ prevRan = {"Drawing"} =>
                /\ Len(segs') = 1
                /\ segs'[1].from = <<xp, yp>>
                /\ segs'[1].to = TipOf(lmlist')
                /\ segs'[1].color = drawing_color]_vars
(* C15: the colour is black exactly when the eraser is the selected        *)
(* toolbar entry (overlay 2), and a Drawing frame draws its segment 50     *)
(* wide when the eraser is selected and 8 wide otherwise.                  *)
C15_EraserWidthWithEraserTool ==
    /\ (drawing_color = <<0, 0, 0>>) <=> (header = 2)
    /\ (Processed /\ DrawingFrame(lmlist)) =>
          /\ Len(segs) = 1
          /\ segs[1].size = (IF header = 2 THEN 50 ELSE 8)

(* a Drawing frame with the eraser selected, erasing at (150, 300) *)
C15_Witness ==
    /\ Processed /\ DrawingFrame(lmlist) /\ TipOf(lmlist) = <<150, 300>>
    /\ header = 2 /\ drawing_color = <<0, 0, 0>>
    /\ Len(segs) = 1 /\ segs[1].size = 50
    /\ cover[<<150, 300>>] = "eraser"

(* C16: every Selection frame leaves the pointer at (0, 0), whether or not *)
(* the fingertip is in the toolbar band or hits an entry, so the Drawing   *)
(* frame right after a Selection frame draws the zero-length segment at    *)
(* its fingertip: the canvas changes only under that dot.                  *)
C16_SelectionBreaksStroke ==
    [][/\ (pc = "process" /\ SelectionFrame(lmlist')) => (xp' = 0 /\ yp' = 0)
       /\ (pc = "process" /\ DrawingFrame(lmlist') /\ prevRan = {"Selection"}) =>
             /\ Len(segs') = 1
             /\ segs'[1].from = TipOf(lmlist')
             /\ segs'[1].to = TipOf(lmlist')
             /\ \A p \in Pixels :
                   ~OnLine(p, TipOf(lmlist'), TipOf(lmlist'), 50) =>
                       img_canvas'[p] = img_canvas[p]]_vars

(* a stroke at (150, 300), a Selection frame, then a dot at (1129, 300)    *)
(* with nothing drawn in between                                           *)
C16_Witness ==
    /\ pc = "show" /\ frameNo = 3 /\ DrawingFrame(lmlist)
    /\ prevRan = {"Selection"}
    /\ segs[1].from = <<1129, 300>> /\ segs[1].to = <<1129, 300>>
    /\ img_canvas[<<150, 300>>] = <<0, 0, 255>>
    /\ img_canvas[<<1129, 300>>] = <<0, 0, 255>>
    /\ img_canvas[<<639, 300>>] = <<0, 0, 0>>

(* C18: the header shown and the colour always go together: overlay 0 with *)
(* red, 1 with green, 3 with pink, 2 with black; no other colour occurs.   *)
C18_HeaderMatchesColour ==
    <<header, drawing_color>> \in
        { <<0, <<0, 0, 255>>>>, <<1, <<0, 255, 0>>>>,
          <<3, <<255, 0, 255>>>>, <<2, <<0, 0, 0>>>> }

(* a Selection frame that has just picked pink *)
C18_Witness ==
    /\ Processed /\ SelectionFrame(lmlist) /\ TipOf(lmlist) = <<800, 50>>
    /\ header = 3 /\ drawing_color = <<255, 0, 255>>
(* C17 as stated: the compositor takes a canvas pixel of intensity g as    *)
(* background (mask 255: the output is the live pixel or-ed with the       *)
(* canvas pixel) iff g < 50 and as foreground (mask 0: the output is the   *)
(* canvas pixel) iff g >= 50; intensity exactly 50 is foreground.          *)
C17_ForegroundFrom50 ==
    [][pc = "combine" =>
          \A p \in Pixels : p[2] >= 100 =>
              LET g == Gray(img_canvas[p])
              IN  /\ g < 50 => img'[p] = Or3(img[p], img_canvas[p])
                  /\ g >= 50 => img'[p] = img_canvas[p]]_vars

(* C17 amended: the compositor takes a canvas pixel of intensity g as      *)
(* background (mask 255) iff g <= 50 and as foreground (mask 0) iff        *)
(* g > 50; intensity exactly 50 is background.                             *)
C17_ForegroundAbove50 ==
    [][pc = "combine" =>
          \A p \in Pixels : p[2] >= 100 =>
              LET g == Gray(img_canvas[p])
              IN  /\ g <= 50 => (/\ Mask(img_canvas, p) = <<255, 255, 255>>
                                 /\ img'[p] = Or3(img[p], img_canvas[p]))
                  /\ g > 50 => (/\ Mask(img_canvas, p) = <<0, 0, 0>>
                                /\ img'[p] = img_canvas[p])]_vars

(* a canvas of intensity exactly 50 composed with a white live pixel: the  *)
(* live pixel shows                                                        *)
C17_Witness ==
    /\ pc = "show"
    /\ img_canvas[<<150, 300>>] = <<50, 50, 50>>
    /\ Gray(img_canvas[<<150, 300>>]) = 50
    /\ img[<<150, 300>>] = <<255, 255, 255>>
(* C19 as stated: every canvas pixel is black or red, green or pink, each  *)
(* brush colour of intensity above 50, so the compositor shows the canvas  *)
(* colour at a pixel iff the last Drawing segment that covered it was a    *)
(* brush segment, and the live frame at every other pixel.                 *)
C19_CanvasColourShowsEverywhere ==
    [][/\ \A p \in Pixels :
             /\ img_canvas'[p] \in {<<0, 0, 0>>, <<0, 0, 255>>, <<0, 255, 0>>, <<255, 0, 255>>}
             /\ img_canvas'[p] # <<0, 0, 0>> => Gray(img_canvas'[p]) > 50
             /\ (cover'[p] = "brush") <=> (img_canvas'[p] # <<0, 0, 0>>)
       /\ pc = "combine" =>
             \A p \in Pixels :
                 img'[p] = (IF cover[p] = "brush" THEN img_canvas[p] ELSE img[p])]_vars

(* C19 amended: the same for the pixels outside the header band (rows 100  *)
(* and below); in the band the compositor shows the header image whatever  *)
(* the canvas holds.                                                       *)
C19_CanvasColourShowsOutsideHeader ==
    [][/\ \A p \in Pixels :
             /\ img_canvas'[p] \in {<<0, 0, 0>>, <<0, 0, 255>>, <<0, 255, 0>>, <<255, 0, 255>>}
             /\ img_canvas'[p] # <<0, 0, 0>> => Gray(img_canvas'[p]) > 50
             /\ (cover'[p] = "brush") <=> (img_canvas'[p] # <<0, 0, 0>>)
       /\ pc = "combine" =>
             \A p \in Pixels :
                 IF p[2] >= 100
                 THEN img'[p] = (IF cover[p] = "brush" THEN img_canvas[p] ELSE img[p])
                 ELSE img'[p] = Overlay(header)[p]]_vars

(* a red dot at (150, 300) erased again, then a green dot at (1129, 300):  *)
(* the output shows green there                                            *)
C19_Witness ==
    /\ pc = "show" /\ frameNo = 5
    /\ cover[<<150, 300>>] = "erased"
    /\ cover[<<1129, 300>>] = "brush"
    /\ img_canvas[<<1129, 300>>] = <<0, 255, 0>>
    /\ img[<<1129, 300>>] = <<0, 255, 0>>

====
